---- MODULE Spec2Model ----
(***************************************************************************)
(* ElevateCRM: the real-time WebSocket hook (useRealtime), the row-level    *)
(* security tenant context, the real-time notification list and the         *)
(* semantic search box, each as a state machine.                            *)
(***************************************************************************)
EXTENDS Integers, Sequences, FiniteSets, TLC

(***************************************************************************)
(* Bounds of the model.                                                     *)
(***************************************************************************)
MaxSockets == 2
MaxConns == 2
MaxNotifs == 3
MaxInflight == 2
MaxForecasts == 2
MaxMoves == 2

(***************************************************************************)
(* Program constants of useRealtime (DEFAULT_OPTIONS).                      *)
(***************************************************************************)
reconnectAttempts == 5
reconnectDelay == 2000
heartbeatInterval == 30000

NULL == "null"
OwnTenant == "techguru-demo"
OtherTenant == "other-tenant"

VARIABLES
    \* ---- useAuth / render state of useRealtime
    user,                 \* useAuth().user is set (TRUE) or null (FALSE)
    hcUser,               \* `user` seen by the connect() that the memoized handleClose closes over
    \* ---- React state of useRealtime
    isConnected, connectionId, error, lastEvent,
    \* ---- refs of useRealtime
    wsRef, reconnectCount, reconnectTimeoutRef, heartbeatTimeoutRef, isManualDisconnect,
    \* ---- environment: the browser's WebSocket objects and pending timers
    sock, timers,
    lastPing,             \* readyState of the socket the last ping was sent on
    \* ---- history
    firedDelays,          \* delays of the reconnect timers that fired since the last connection_established
    disconnected,         \* disconnect() was called and connect() was not called since
    \* ---- row-level security: database connections (with the request each serves), the last query
    conn, lastQuery,
    \* ---- RealtimeNotifications: props, React state, pending auto-hide timers
    maxNotifications, autoHideDelay, notifications, unreadCount, hideTimers,
    nextId,               \* the next notification id (ids are unique)
    lastHidden,           \* history: what the last auto-hide timer found
    \* ---- SemanticSearch: React state, requests in flight, the last toast
    query, results, isLoading, inflight, toast,
    lastResponse,         \* history: the last response received
    lastAction,           \* history: the handler that ran last
    \* ---- AnalyticsPage: React state, forecast requests in flight, the last toast
    selectedProduct, forecastData, fcPending, fcToast,
    fcPosted,             \* history: the last request posted by handleForecast
    \* ---- deploy.sh: position, command-line argument, the ERR trap, exit status
    pc, arg, errTrap, exitStatus,
    service,              \* index of the for loop over SERVICES
    postgresUp,           \* what `ps postgres | grep -q "Up"` found in backup_database
    depLog,               \* history: the functions entered and the commands run
    \* ---- InventoryPage: React state, the simulated API calls in flight
    searchResult, stockMoves, selectedMoveType, invQuantity, invLoading,
    scanPending,          \* barcodes whose searchByBarcode timer is pending (FIFO)
    movePending           \* moveData whose createStockMove timer is pending (FIFO)

rtVars == <<user, hcUser, isConnected, connectionId, error, lastEvent,
            wsRef, reconnectCount, reconnectTimeoutRef, heartbeatTimeoutRef,
            isManualDisconnect, sock, timers, lastPing, firedDelays, disconnected>>

rlsVars == <<conn, lastQuery>>

notifVars == <<maxNotifications, autoHideDelay, notifications, unreadCount, hideTimers,
               nextId, lastHidden>>

searchVars == <<query, results, isLoading, inflight, toast, lastResponse, lastAction>>

fcVars == <<selectedProduct, forecastData, fcPending, fcToast, fcPosted>>

depVars == <<pc, arg, errTrap, exitStatus, service, postgresUp, depLog>>

invVars == <<searchResult, stockMoves, selectedMoveType, invQuantity, invLoading,
             scanPending, movePending>>

addVars == <<fcVars, depVars, invVars>>

vars == <<rtVars, rlsVars, notifVars, searchVars, addVars>>

----------------------------------------------------------------------------
(***************************************************************************)
(* useRealtime                                                              *)
(***************************************************************************)
SockIds == 1..MaxSockets
NoSock == [state |-> "NONE", env |-> FALSE, established |-> FALSE]
NoEvent == [event_type |-> NULL, hasData |-> FALSE, event_id |-> NULL, tenant_id |-> NULL]

RECURSIVE Pow2(_)
Pow2(n) == IF n = 0 THEN 1 ELSE 2 * Pow2(n - 1)

\* The hook's mutable state as one record, so that handlers compose.
St == [isConnected |-> isConnected, connectionId |-> connectionId, error |-> error,
       lastEvent |-> lastEvent, wsRef |-> wsRef, reconnectCount |-> reconnectCount,
       reconnectTimeoutRef |-> reconnectTimeoutRef,
       heartbeatTimeoutRef |-> heartbeatTimeoutRef,
       isManualDisconnect |-> isManualDisconnect, sock |-> sock, timers |-> timers,
       lastPing |-> lastPing, firedDelays |-> firedDelays]

Commit(h) ==
    /\ isConnected' = h.isConnected
    /\ connectionId' = h.connectionId
    /\ error' = h.error
    /\ lastEvent' = h.lastEvent
    /\ wsRef' = h.wsRef
    /\ reconnectCount' = h.reconnectCount
    /\ reconnectTimeoutRef' = h.reconnectTimeoutRef
    /\ heartbeatTimeoutRef' = h.heartbeatTimeoutRef
    /\ isManualDisconnect' = h.isManualDisconnect
    /\ sock' = h.sock
    /\ timers' = h.timers
    /\ lastPing' = h.lastPing
    /\ firedDelays' = h.firedDelays

\* setTimeout: ids are never reused while a ref still holds them.
TimerIds == 1..4
FreshTimer(h) ==
    CHOOSE n \in TimerIds :
        /\ n \notin {t.id : t \in h.timers} \cup {h.reconnectTimeoutRef, h.heartbeatTimeoutRef}
        /\ \A m \in 1..(n - 1) :
               m \in {t.id : t \in h.timers} \cup {h.reconnectTimeoutRef, h.heartbeatTimeoutRef}

clearTimeout(h, id) == [h EXCEPT !.timers = {t \in h.timers : t.id # id}]

clearTimeouts(h) ==
    LET h1 == IF h.reconnectTimeoutRef # 0
              THEN [clearTimeout(h, h.reconnectTimeoutRef) EXCEPT !.reconnectTimeoutRef = 0]
              ELSE h
    IN IF h1.heartbeatTimeoutRef # 0
       THEN [clearTimeout(h1, h1.heartbeatTimeoutRef) EXCEPT !.heartbeatTimeoutRef = 0]
       ELSE h1

startHeartbeat(h) ==
    LET h1 == IF h.heartbeatTimeoutRef # 0 THEN clearTimeout(h, h.heartbeatTimeoutRef) ELSE h
        id == FreshTimer([h1 EXCEPT !.heartbeatTimeoutRef = 0])
    IN [h1 EXCEPT !.heartbeatTimeoutRef = id,
                  !.timers = h1.timers \cup
                      {[id |-> id, kind |-> "heartbeat", delay |-> heartbeatInterval,
                        env |-> FALSE]}]

\* The frames a server can send; invalid |-> TRUE is one that JSON.parse rejects.
Messages ==
    [type : {"connection_established"}, connection_id : {"c1", ""}, event_type : {""},
     hasData : {FALSE}, event_id : {""}, tenant_id : {OwnTenant}, invalid : {FALSE}]
    \cup
    [type : {"realtime_event"}, connection_id : {""}, event_type : {"stock_update", ""},
     hasData : BOOLEAN, event_id : {"e1"}, tenant_id : {OwnTenant, OtherTenant},
     invalid : {FALSE}]
    \cup
    [type : {"pong", "subscription_confirmed", "unknown"}, connection_id : {""},
     event_type : {""}, hasData : {FALSE}, event_id : {""}, tenant_id : {OwnTenant},
     invalid : BOOLEAN]
    \cup
    [type : {"error"}, connection_id : {""}, event_type : {""}, hasData : {FALSE},
     event_id : {""}, tenant_id : {OwnTenant}, invalid : {FALSE}]

\* handleMessage for a frame received on socket s.
handleMessage(h, s, m) ==
    IF m.invalid THEN [h EXCEPT !.error = "Failed to parse server message"]
    ELSE CASE m.type = "connection_established" ->
                  startHeartbeat(
                      [h EXCEPT !.connectionId =
                                    IF m.connection_id # "" THEN m.connection_id ELSE NULL,
                                !.isConnected = TRUE,
                                !.error = NULL,
                                !.reconnectCount = 0,
                                !.firedDelays = <<>>,
                                !.sock[s].established = TRUE])
           [] m.type = "realtime_event" ->
                  IF m.event_type # "" /\ m.hasData
                  THEN [h EXCEPT !.lastEvent =
                                     [event_type |-> m.event_type, hasData |-> m.hasData,
                                      event_id |-> m.event_id, tenant_id |-> m.tenant_id]]
                  ELSE h
           [] m.type = "error" -> [h EXCEPT !.error = "WebSocket error"]
           [] OTHER -> h

handleError(h) == [h EXCEPT !.error = "WebSocket connection error"]

\* const delay = opts.reconnectDelay * Math.pow(2, reconnectCountRef.current)
delay_linear(count) == reconnectDelay * (count + 1)
delay(count) == reconnectDelay * Pow2(count)

\* handleClose, run as the onclose handler of a socket whose handlers were
\* installed by a connect() that saw `env` as its user.
handleClose(h, env) ==
    LET h1 == clearTimeouts([h EXCEPT !.isConnected = FALSE, !.connectionId = NULL])
    IN IF h1.isManualDisconnect
       THEN [h1 EXCEPT !.isManualDisconnect = FALSE]
       ELSE IF h1.reconnectCount < reconnectAttempts
            THEN LET id == FreshTimer(h1)
                 IN [h1 EXCEPT !.reconnectTimeoutRef = id,
                               !.timers = h1.timers \cup
                                   {[id |-> id, kind |-> "reconnect",
                                     delay |-> delay(h1.reconnectCount),
                                     env |-> env]}]
            ELSE [h1 EXCEPT !.error = "Max reconnection attempts reached"]

FreeSocks(h) == {i \in SockIds : h.sock[i].state = "NONE"}
Busy(h) == h.wsRef # 0 /\ h.sock[h.wsRef].state \in {"CONNECTING", "OPEN"}
\* connect() would run `new WebSocket(...)`.
Creates(h, u) == u /\ ~Busy(h)

\* connect() of a render that saw `u` as user and whose handleClose calls a
\* connect() that saw `env`.  A replaced socket that is already CLOSED has no
\* event left and is dropped.
connect(h, u, env) ==
    IF ~u THEN [h EXCEPT !.error = "Authentication required"]
    ELSE IF Busy(h) THEN h
    ELSE LET h1 == IF h.wsRef # 0 /\ h.sock[h.wsRef].state = "CLOSED"
                   THEN [h EXCEPT !.sock[h.wsRef] = NoSock]
                   ELSE h
             s == CHOOSE i \in FreeSocks(h1) : \A j \in FreeSocks(h1) : i <= j
         IN [h1 EXCEPT !.sock[s] = [state |-> "CONNECTING", env |-> env,
                                    established |-> FALSE],
                       !.wsRef = s]

disconnect(h) ==
    LET h1 == clearTimeouts([h EXCEPT !.isManualDisconnect = TRUE])
        h2 == IF h1.wsRef # 0
              THEN [h1 EXCEPT !.sock[h1.wsRef] =
                                  IF h1.sock[h1.wsRef].state \in {"CONNECTING", "OPEN"}
                                  THEN [h1.sock[h1.wsRef] EXCEPT !.state = "CLOSING"]
                                  ELSE NoSock,
                              !.wsRef = 0]
              ELSE h1
    IN [h2 EXCEPT !.isConnected = FALSE, !.connectionId = NULL, !.error = NULL]

\* The body of the heartbeat timer.
heartbeatTick(h) ==
    IF h.wsRef # 0 /\ h.sock[h.wsRef].state = "OPEN"
    THEN startHeartbeat([h EXCEPT !.lastPing = h.sock[h.wsRef].state])
    ELSE h

\* The auto-connect effect re-running: the previous run's cleanup, then its body.
runEffect(h, u, env) ==
    LET h1 == disconnect(h) IN IF u THEN connect(h1, u, env) ELSE h1

----------------------------------------------------------------------------
\* Actions of the hook.

RtInit ==
    /\ user = FALSE /\ hcUser = FALSE
    /\ isConnected = FALSE /\ connectionId = NULL /\ error = NULL /\ lastEvent = NoEvent
    /\ wsRef = 0 /\ reconnectCount = 0
    /\ reconnectTimeoutRef = 0 /\ heartbeatTimeoutRef = 0
    /\ isManualDisconnect = FALSE
    /\ sock = [i \in SockIds |-> NoSock]
    /\ timers = {}
    /\ lastPing = NULL
    /\ firedDelays = <<>>
    /\ disconnected = FALSE

\* useAuth's timer sets the user; the hook re-renders and the effect re-runs.
AuthLoaded ==
    /\ ~user
    /\ FreeSocks(disconnect(St)) # {}
    /\ user' = TRUE
    /\ Commit(runEffect(St, TRUE, hcUser))
    /\ disconnected' = FALSE
    /\ UNCHANGED hcUser

\* The caller re-renders with opts.debug changed: log, handleClose, handleMessage,
\* connect and disconnect are all re-created, and the effect re-runs.
ToggleDebug ==
    /\ ~user \/ FreeSocks(disconnect(St)) # {}
    /\ hcUser' = user
    /\ Commit(runEffect(St, user, user))
    /\ disconnected' = ~user
    /\ UNCHANGED user

\* The caller re-renders with a new onEvent callback: handleMessage and connect
\* are re-created, and the effect re-runs.
RenderNewOnEvent ==
    /\ ~user \/ FreeSocks(disconnect(St)) # {}
    /\ Commit(runEffect(St, user, hcUser))
    /\ disconnected' = ~user
    /\ UNCHANGED <<user, hcUser>>

CallConnect ==
    /\ Creates(St, user) => FreeSocks(St) # {} \/ (wsRef # 0 /\ sock[wsRef].state = "CLOSED")
    /\ Commit(connect(St, user, hcUser))
    /\ disconnected' = FALSE
    /\ UNCHANGED <<user, hcUser>>

CallDisconnect ==
    /\ Commit(disconnect(St))
    /\ disconnected' = TRUE
    /\ UNCHANGED <<user, hcUser>>

SocketOpen(s) ==
    /\ sock[s].state = "CONNECTING"
    /\ sock' = [sock EXCEPT ![s].state = "OPEN"]
    /\ UNCHANGED <<user, hcUser, isConnected, connectionId, error, lastEvent,
                   wsRef, reconnectCount, reconnectTimeoutRef, heartbeatTimeoutRef,
                   isManualDisconnect, timers, lastPing, firedDelays, disconnected>>

Receive(s, m) ==
    /\ sock[s].state = "OPEN"
    /\ Commit(handleMessage(St, s, m))
    /\ UNCHANGED <<user, hcUser, disconnected>>

\* The connection fails or the server closes it: error (optionally) and close
\* events are dispatched on a socket that close() was not called on.
UnexpectedClose(s, withError) ==
    /\ sock[s].state \in {"CONNECTING", "OPEN"}
    /\ LET h0 == [St EXCEPT !.sock[s].state = "CLOSED"]
           h1 == IF withError THEN handleError(h0) ELSE h0
           h2 == handleClose(h1, sock[s].env)
       IN Commit(IF h2.wsRef = s THEN h2 ELSE [h2 EXCEPT !.sock[s] = NoSock])
    /\ UNCHANGED <<user, hcUser, disconnected>>

\* The close event of a socket that disconnect() closed.
ManualCloseEvent(s) ==
    /\ sock[s].state = "CLOSING"
    /\ Commit([handleClose(St, sock[s].env) EXCEPT !.sock[s] = NoSock])
    /\ UNCHANGED <<user, hcUser, disconnected>>

ReconnectFire(t) ==
    /\ t \in timers /\ t.kind = "reconnect"
    /\ LET h0 == [St EXCEPT !.timers = timers \ {t},
                            !.reconnectCount = reconnectCount + 1,
                            !.firedDelays = Append(firedDelays, t.delay)]
       IN /\ Creates(h0, t.env) =>
                 FreeSocks(h0) # {} \/ (wsRef # 0 /\ sock[wsRef].state = "CLOSED")
          /\ Commit(connect(h0, t.env, t.env))
    /\ UNCHANGED <<user, hcUser, disconnected>>

HeartbeatFire(t) ==
    /\ t \in timers /\ t.kind = "heartbeat"
    /\ Commit(heartbeatTick([St EXCEPT !.timers = timers \ {t}]))
    /\ UNCHANGED <<user, hcUser, disconnected>>

RtNext ==
    \/ AuthLoaded
    \/ ToggleDebug
    \/ RenderNewOnEvent
    \/ CallConnect
    \/ CallDisconnect
    \/ \E s \in SockIds : SocketOpen(s)
    \/ \E s \in SockIds, m \in Messages : Receive(s, m)
    \/ \E s \in SockIds, e \in BOOLEAN : UnexpectedClose(s, e)
    \/ \E s \in SockIds : ManualCloseEvent(s)
    \/ \E t \in timers : ReconnectFire(t)
    \/ \E t \in timers : HeartbeatFire(t)

----------------------------------------------------------------------------
(***************************************************************************)
(* Row-level security: the policies of the setup guide, the per-request     *)
(* tenant context and the connection pool.                                  *)
(***************************************************************************)
TenantA == "tenant-a-uuid"
TenantB == "tenant-b-uuid"
SqlNull == "NULL"
NoColumn == "no such column"
Tenants == {TenantA, TenantB}

Tables == {"companies", "users", "contacts", "products", "orders", "integrations"}
\* ALTER TABLE ... ENABLE ROW LEVEL SECURITY
RlsEnabled_without_integrations == Tables \ {"integrations"}
RlsEnabled == {"companies", "users", "contacts", "products", "orders", "integrations"}

\* Two rows per tenant in every table; a company row is the tenant itself.
Rows(table) ==
    IF table = "companies"
    THEN {[id |-> t, company_id |-> NoColumn] : t \in Tenants}
    ELSE [id : {"r1", "r2"}, company_id : Tenants]

\* SQL's = : NULL when an operand is NULL.
SqlEq(a, b) == IF a = SqlNull \/ b = SqlNull THEN SqlNull
              ELSE IF a = b THEN "true" ELSE "false"

\* CREATE POLICY tenant_isolation_policy ON <table> FOR ALL
\*   USING (<column>::text = current_setting('elevatecrm.tenant_id', true))
PolicyColumn(table) == IF table = "companies" THEN "id" ELSE "company_id"
Policy_null_passes(table, row, setting) ==
    SqlEq(row[PolicyColumn(table)], setting) # "false"
Policy(table, row, setting) ==
    SqlEq(row[PolicyColumn(table)], setting) = "true"

\* SELECT * FROM <table> under the given current_setting('elevatecrm.tenant_id', true)
Select(table, setting) ==
    IF table \in RlsEnabled
    THEN {r \in Rows(table) : Policy(table, r, setting)}
    ELSE Rows(table)

ConnIds == 0..MaxConns          \* 0 is the psql session of the guide's isolation test
Pool == 1..MaxConns
NoLocal == "no local value"
NoToken == "no tenant in token"

\* A connection: its session and transaction-local values of elevatecrm.tenant_id,
\* the request that holds it (pc, token) and, as history, the token of the request
\* that held it before (prev).
FreshConn == [session |-> SqlNull, local |-> NoLocal, pc |-> "free", token |-> NoToken,
              prev |-> NoToken]

\* current_setting('elevatecrm.tenant_id', true): the transaction-local value, else
\* the session value, else NULL.
current_setting(c) == IF conn[c].local # NoLocal THEN conn[c].local ELSE conn[c].session

\* set_config(name, value, is_local) on connection c
set_config(c, value, is_local) ==
    IF is_local THEN [conn EXCEPT ![c].local = value]
    ELSE [conn EXCEPT ![c].session = value]

\* async def set_tenant_context(db, tenant_id):
\*     SELECT set_config('elevatecrm.tenant_id', :tenant_id, true)
set_tenant_context_session(c, tenant_id) == set_config(c, tenant_id, FALSE)
set_tenant_context(c, tenant_id) == set_config(c, tenant_id, TRUE)

NoQuery == [kind |-> "none", token |-> NoToken, table |-> "none", setting |-> SqlNull,
            rows |-> {}]

RlsInit ==
    /\ conn = [c \in ConnIds |-> FreshConn]
    /\ lastQuery = NoQuery

\* A request arrives with a token of tenant t (or with none) and takes the free
\* pooled connection c; its transaction begins and the tenant middleware makes
\* the tenant id of the token the tenant context.
BeginRequest(c, t) ==
    /\ conn[c].pc = "free"
    /\ conn' = [(IF t # NoToken THEN set_tenant_context(c, t) ELSE conn)
                    EXCEPT ![c].pc = "ready", ![c].token = t]
    /\ UNCHANGED lastQuery

\* The endpoint of the request on c queries a table.
RequestQuery(c, table) ==
    /\ conn[c].pc = "ready"
    /\ lastQuery' = [kind |-> "request", token |-> conn[c].token, table |-> table,
                     setting |-> current_setting(c),
                     rows |-> Select(table, current_setting(c))]
    /\ UNCHANGED conn

\* The request on c ends: its transaction ends, which drops the transaction-local
\* value, and the connection goes back to the pool.
EndRequest(c) ==
    /\ conn[c].pc = "ready"
    /\ conn' = [conn EXCEPT ![c].local = NoLocal, ![c].pc = "free",
                            ![c].token = NoToken, ![c].prev = conn[c].token]
    /\ UNCHANGED lastQuery

\* The guide's isolation test in a psql session: SET elevatecrm.tenant_id = '...'
TestSet(v) ==
    /\ conn' = set_config(0, v, FALSE)
    /\ UNCHANGED lastQuery

\* ... followed by SELECT * FROM <table>
TestSelect(table) ==
    /\ lastQuery' = [kind |-> "psql", token |-> NoToken, table |-> table,
                     setting |-> current_setting(0),
                     rows |-> Select(table, current_setting(0))]
    /\ UNCHANGED conn

RlsNext ==
    \/ \E c \in Pool, t \in Tenants \cup {NoToken} : BeginRequest(c, t)
    \/ \E c \in Pool, table \in Tables : RequestQuery(c, table)
    \/ \E c \in Pool : EndRequest(c)
    \/ \E v \in Tenants \cup {""} : TestSet(v)
    \/ \E table \in Tables : TestSelect(table)

----------------------------------------------------------------------------
(***************************************************************************)
(* RealtimeNotifications                                                    *)
(***************************************************************************)
maxNotificationsDefault == 10
autoHideDelayDefault == 5000

NotifIds == 1..MaxNotifs
Min(a, b) == IF a < b THEN a ELSE b
Max(a, b) == IF a < b THEN b ELSE a
Ids(list) == {list[i].id : i \in 1..Len(list)}

\* createNotification: read is false; the id (time stamp and random suffix) is new.
createNotification(id, autoHide) == [id |-> id, read |-> FALSE, autoHide |-> autoHide]

\* prev => [notification, ...prev].slice(0, maxNotifications)
prepend(n, prev) == SubSeq(<<n>> \o prev, 1, Min(Len(prev) + 1, maxNotifications))

\* prev => prev.filter(n => n.id !== id)
removeNotification_unread(list, id) == SelectSeq(list, LAMBDA n : n.id # id \/ n.read)
removeNotification(list, id) == SelectSeq(list, LAMBDA n : n.id # id)

NoHidden == [id |-> 0, inList |-> FALSE, read |-> FALSE]

NotifRest ==
    /\ notifications = <<>> /\ unreadCount = 0 /\ hideTimers = {} /\ nextId = 1
    /\ lastHidden = NoHidden
\* The component at rest, with the default props.
NotifDefault ==
    /\ maxNotifications = maxNotificationsDefault /\ autoHideDelay = autoHideDelayDefault
    /\ NotifRest
\* The component mounted with the default props or with others.
NotifInit ==
    /\ maxNotifications \in {2, maxNotificationsDefault}
    /\ autoHideDelay \in {0, autoHideDelayDefault}
    /\ NotifRest

\* addNotification, called by the stock, order and system event callbacks.
AddNotification(autoHide) ==
    /\ nextId <= MaxNotifs
    /\ notifications' = prepend(createNotification(nextId, autoHide), notifications)
    /\ unreadCount' = unreadCount + 1
    /\ hideTimers' = IF autoHide /\ autoHideDelay > 0 THEN hideTimers \cup {nextId}
                      ELSE hideTimers
    /\ nextId' = nextId + 1
    /\ UNCHANGED <<maxNotifications, autoHideDelay, lastHidden>>

\* The auto-hide timer of notification id fires.
HideTimerFire(id) ==
    /\ id \in hideTimers
    /\ hideTimers' = hideTimers \ {id}
    /\ notifications' = removeNotification(notifications, id)
    /\ lastHidden' = [id |-> id, inList |-> id \in Ids(notifications),
                      read |-> \E i \in 1..Len(notifications) :
                                   notifications[i].id = id /\ notifications[i].read]
    /\ UNCHANGED <<maxNotifications, autoHideDelay, unreadCount, nextId>>

\* The X button of a notification.
ClickRemove(id) ==
    /\ id \in Ids(notifications)
    /\ notifications' = removeNotification(notifications, id)
    /\ UNCHANGED <<maxNotifications, autoHideDelay, unreadCount, hideTimers, nextId,
                   lastHidden>>

markAsRead(id) ==
    /\ id \in Ids(notifications)
    /\ notifications' = [i \in 1..Len(notifications) |->
                            IF notifications[i].id = id
                            THEN [notifications[i] EXCEPT !.read = TRUE]
                            ELSE notifications[i]]
    /\ unreadCount' = Max(0, unreadCount - 1)
    /\ UNCHANGED <<maxNotifications, autoHideDelay, hideTimers, nextId, lastHidden>>

markAllAsRead ==
    /\ unreadCount > 0
    /\ notifications' = [i \in 1..Len(notifications) |->
                            [notifications[i] EXCEPT !.read = TRUE]]
    /\ unreadCount' = 0
    /\ UNCHANGED <<maxNotifications, autoHideDelay, hideTimers, nextId, lastHidden>>

NotifNext ==
    \/ \E autoHide \in BOOLEAN : AddNotification(autoHide)
    \/ \E id \in NotifIds : HideTimerFire(id)
    \/ \E id \in NotifIds : ClickRemove(id)
    \/ \E id \in NotifIds : markAsRead(id)
    \/ markAllAsRead

----------------------------------------------------------------------------
(***************************************************************************)
(* SemanticSearch                                                           *)
(***************************************************************************)
\* A query is a sequence of characters.
Queries == {<<>>, <<" ">>, <<"a">>, <<" ", "a", " ">>}

\* String.prototype.trim
RECURSIVE trimStart(_)
trimStart(str) == IF str # <<>> /\ Head(str) = " " THEN trimStart(Tail(str)) ELSE str
RECURSIVE trimEnd(_)
trimEnd(str) ==
    IF str # <<>> /\ str[Len(str)] = " " THEN trimEnd(SubSeq(str, 1, Len(str) - 1)) ELSE str
trim(str) == trimEnd(trimStart(str))

\* if (!query.trim()) { toast.error(...); return; }
rejects_empty_only(q) == q = <<>>
rejects(q) == trim(q) = <<>>

\* The results a server can answer with; similarity_score is in 1/10000.
TestProduct == [entity_type |-> "product", entity_id |-> "123", name |-> "Test Product",
                similarity_score |-> 9500]
Unnamed == [entity_type |-> "contact", entity_id |-> "7", name |-> "",
            similarity_score |-> 1234]
ResultArrays == {<<>>, <<TestProduct>>, <<Unnamed>>, <<Unnamed, TestProduct>>}

\* results.map(...): the title and 'Similarity: xx.yy%' of each result.
Shown(res) ==
    [i \in 1..Len(res) |->
        [title |-> IF res[i].name # "" THEN res[i].name ELSE res[i].entity_type,
         percent |-> res[i].similarity_score \div 100,
         hundredths |-> res[i].similarity_score % 100]]

ReqIdsFree == {i \in 1..MaxInflight : \A r \in inflight : r.id # i}
NoResponse == [status |-> "none", results |-> <<>>]

SearchRest ==
    /\ query = <<>> /\ results = <<>> /\ isLoading = FALSE /\ inflight = {}
    /\ toast = NULL /\ lastResponse = NoResponse /\ lastAction = "mount"

\* onChange of the input
SetQuery(q) ==
    /\ q # query
    /\ query' = q
    /\ lastAction' = "setQuery"
    /\ UNCHANGED <<results, isLoading, inflight, toast, lastResponse>>

\* handleSearch up to its await: by the button (disabled while loading) or Enter.
HandleSearch(byButton) ==
    /\ byButton => ~isLoading
    /\ lastAction' = "handleSearch"
    /\ IF rejects(query)
       THEN /\ toast' = "Please enter a search query."
            /\ UNCHANGED <<query, results, isLoading, inflight, lastResponse>>
       ELSE /\ ReqIdsFree # {}
            /\ isLoading' = TRUE
            /\ inflight' = inflight \cup
                   {[id |-> CHOOSE i \in ReqIdsFree : \A j \in ReqIdsFree : i <= j,
                     url |-> "/ai/semantic-search", query |-> query]}
            /\ UNCHANGED <<query, results, toast, lastResponse>>

\* The request r succeeds with the results res: handleSearch after its await.
SearchSucceeds(r, res) ==
    /\ r \in inflight
    /\ inflight' = inflight \ {r}
    /\ results' = res
    /\ toast' = IF Len(res) = 0 THEN "No results found." ELSE toast
    /\ isLoading' = FALSE
    /\ lastResponse' = [status |-> "ok", results |-> res]
    /\ lastAction' = "response"
    /\ UNCHANGED query

\* The request r fails: the catch branch.
SearchFails(r) ==
    /\ r \in inflight
    /\ inflight' = inflight \ {r}
    /\ toast' = "Search failed."
    /\ isLoading' = FALSE
    /\ lastResponse' = [status |-> "error", results |-> <<>>]
    /\ lastAction' = "response"
    /\ UNCHANGED <<query, results>>

SearchNext ==
    \/ \E q \in Queries : SetQuery(q)
    \/ \E byButton \in BOOLEAN : HandleSearch(byButton)
    \/ \E r \in inflight, res \in ResultArrays : SearchSucceeds(r, res)
    \/ \E r \in inflight : SearchFails(r)

----------------------------------------------------------------------------
(***************************************************************************)
(* AnalyticsPage: the demand forecast                                       *)
(***************************************************************************)
mockForecastData ==
    << [name |-> "Week 1", demand |-> 4000],
       [name |-> "Week 2", demand |-> 3000],
       [name |-> "Week 3", demand |-> 2000],
       [name |-> "Week 4", demand |-> 2780] >>

\* The values of the two SelectItem options.
Products == {"a1b2c3d4-e5f6-7890-1234-567890abcdef", "b2c3d4e5-f6a7-8901-2345-67890abcdef0"}
\* response.data.predicted_demand
Predictions == {2500, 3100}

ForecastIds == 1..MaxForecasts
NoPost == [url |-> NULL, product_id |-> NULL]

\* Array.prototype.slice(start) with one argument that keeps every element.
slice_keeps_all(arr, start) == arr

\* Array.prototype.slice(start): a negative start counts from the end.
slice(arr, start) ==
    LET len == Len(arr)
        from == IF start < 0 THEN Max(len + start, 0) ELSE Min(start, len)
    IN  SubSeq(arr, from + 1, len)

ForecastRest ==
    /\ selectedProduct = NULL
    /\ forecastData = mockForecastData
    /\ fcPending = [r \in ForecastIds |-> NULL]
    /\ fcToast = NULL
    /\ fcPosted = NoPost

\* onValueChange of the Select
setSelectedProduct(p) ==
    /\ selectedProduct' = p
    /\ UNCHANGED <<forecastData, fcPending, fcToast, fcPosted>>

\* handleForecast up to its await
HandleForecast ==
    IF selectedProduct = NULL
    THEN /\ fcToast' = "Please select a product to forecast."
         /\ UNCHANGED <<selectedProduct, forecastData, fcPending, fcPosted>>
    ELSE \E r \in ForecastIds :
            /\ fcPending[r] = NULL
            /\ fcPending' = [fcPending EXCEPT ![r] = selectedProduct]
            /\ fcPosted' = [url |-> "/ai/forecast", product_id |-> selectedProduct]
            /\ UNCHANGED <<selectedProduct, forecastData, fcToast>>

\* The request r succeeds with predicted_demand d: handleForecast after its await.
ForecastSucceeds(r, d) ==
    /\ fcPending[r] # NULL
    /\ fcPending' = [fcPending EXCEPT ![r] = NULL]
    /\ forecastData' = slice(forecastData, -3) \o <<[name |-> "Next Month", demand |-> d]>>
    /\ fcToast' = "Demand forecast updated!"
    /\ UNCHANGED <<selectedProduct, fcPosted>>

\* The request r fails: the catch branch.
ForecastFails(r) ==
    /\ fcPending[r] # NULL
    /\ fcPending' = [fcPending EXCEPT ![r] = NULL]
    /\ fcToast' = "Failed to fetch forecast."
    /\ UNCHANGED <<selectedProduct, forecastData, fcPosted>>

ForecastNext ==
    \/ \E p \in Products : setSelectedProduct(p)
    \/ HandleForecast
    \/ \E r \in ForecastIds, d \in Predictions : ForecastSucceeds(r, d)
    \/ \E r \in ForecastIds : ForecastFails(r)

----------------------------------------------------------------------------
(***************************************************************************)
(* scripts/deploy.sh (bash, set -e without errtrace)                        *)
(***************************************************************************)
Args == {"", "backup", "verify", "rollback"}
\* The exit status of a script that has not exited.
NotExited == -1
SERVICES == <<"postgres", "redis", "backend", "frontend", "nginx">>

\* The calls of main in another order: the deployment before the backup.
MainSteps_deploy_first ==
    <<"check_prerequisites", "pull_code", "deploy", "backup_database", "verify_deployment">>

\* The calls of main, in the order of the script.
MainSteps ==
    <<"check_prerequisites", "pull_code", "backup_database", "deploy", "verify_deployment">>

\* The first command of each function.
EntryPc(fn) ==
    CASE fn = "check_prerequisites" -> "check_prerequisites"
      [] fn = "pull_code" -> "pull_code"
      [] fn = "backup_database" -> "backup_database"
      [] fn = "deploy" -> "deploy_build"
      [] fn = "verify_deployment" -> "verify_services"

IndexOf(fn) == CHOOSE i \in 1..Len(MainSteps) : MainSteps[i] = fn

DeployRest ==
    /\ pc = "cli" /\ arg = NULL /\ errTrap = NULL /\ exitStatus = NotExited
    /\ service = 1 /\ postgresUp = NULL /\ depLog = <<>>

Goto(p) == pc' = p /\ exitStatus' = exitStatus
Exit(code) == pc' = "exited" /\ exitStatus' = code
Enter(fn) == Goto(EntryPc(fn)) /\ depLog' = Append(depLog, fn)
Run(cmd) == depLog' = Append(depLog, cmd)
\* The command cmd was run and returned the status ok.
Ran(cmd, ok) == depLog' = IF ok THEN Append(depLog, cmd) ELSE depLog \o <<cmd, cmd \o " failed">>

\* A simple command fails in the function fn under set -e: the ERR trap is
\* not inherited by functions, it runs only in the function that set it.
SimpleFails(fn) == IF errTrap = fn THEN Goto("rollback") ELSE Exit(1)

\* The function fn returns 0: to the statement after its call in main, or to
\* the end of the case statement.
Returns(fn) ==
    IF arg # ""
    THEN Exit(0)
    ELSE IF IndexOf(fn) < Len(MainSteps)
         THEN Goto(EntryPc(MainSteps[IndexOf(fn) + 1]))
         ELSE Goto("show_info")
\* The same with the entry of the next function recorded.
ReturnsLogging(fn, cmds) ==
    /\ Returns(fn)
    /\ depLog' = IF arg = "" /\ IndexOf(fn) < Len(MainSteps)
                 THEN cmds \o <<MainSteps[IndexOf(fn) + 1]>>
                 ELSE cmds

\* The case statement on $1.
Cli(a) ==
    /\ pc = "cli"
    /\ arg' = a
    /\ IF a = "" THEN Goto("main") /\ UNCHANGED depLog
       ELSE IF a = "backup" THEN Enter("backup_database")
       ELSE IF a = "verify" THEN Enter("verify_deployment")
       ELSE Goto("rollback") /\ UNCHANGED depLog
    /\ UNCHANGED <<errTrap, service, postgresUp>>

\* main: trap '...; rollback' ERR, then the first call.
Main ==
    /\ pc = "main"
    /\ errTrap' = "main"
    /\ Enter(MainSteps[1])
    /\ UNCHANGED <<arg, service, postgresUp>>

check_prerequisites(docker, compose) ==
    /\ pc = "check_prerequisites"
    /\ IF docker /\ compose
       THEN ReturnsLogging("check_prerequisites", depLog)
       ELSE Exit(1) /\ UNCHANGED depLog
    /\ UNCHANGED <<arg, errTrap, service, postgresUp>>

\* git fetch origin and git reset --hard origin/main, or the skip.
pull_code(git, fetched, reset) ==
    /\ pc = "pull_code"
    /\ IF ~git
       THEN ReturnsLogging("pull_code", depLog)
       ELSE IF ~fetched
       THEN SimpleFails("pull_code") /\ Ran("git fetch", FALSE)
       ELSE IF ~reset
       THEN SimpleFails("pull_code") /\ depLog' = depLog \o <<"git fetch", "git reset", "git reset failed">>
       ELSE ReturnsLogging("pull_code", depLog \o <<"git fetch", "git reset">>)
    /\ UNCHANGED <<arg, errTrap, service, postgresUp>>

\* backup_database: the test of the postgres service.
backup_database(up) ==
    /\ pc = "backup_database"
    /\ postgresUp' = IF up THEN "Up" ELSE "not Up"
    /\ IF up
       THEN Goto("backup_run") /\ UNCHANGED depLog
       ELSE ReturnsLogging("backup_database", Append(depLog, "backup skipped"))
    /\ UNCHANGED <<arg, errTrap, service>>

\* docker-compose run --rm backup
backup_run(ok) ==
    /\ pc = "backup_run"
    /\ IF ok
       THEN ReturnsLogging("backup_database", Append(depLog, "backup created"))
       ELSE SimpleFails("backup_database") /\ Run("backup failed")
    /\ UNCHANGED <<arg, errTrap, service, postgresUp>>

\* deploy: docker-compose build --no-cache
deploy_build(ok) ==
    /\ pc = "deploy_build"
    /\ Ran("build", ok)
    /\ IF ok THEN Goto("deploy_down") ELSE Exit(1)
    /\ UNCHANGED <<arg, errTrap, service, postgresUp>>

\* deploy: docker-compose down
deploy_down(ok) ==
    /\ pc = "deploy_down"
    /\ Ran("down", ok)
    /\ IF ok THEN Goto("deploy_up") ELSE SimpleFails("deploy")
    /\ UNCHANGED <<arg, errTrap, service, postgresUp>>

\* deploy: docker-compose up -d
deploy_up(ok) ==
    /\ pc = "deploy_up"
    /\ Ran("up", ok)
    /\ IF ok THEN Goto("deploy_migrate") ELSE Exit(1)
    /\ UNCHANGED <<arg, errTrap, service, postgresUp>>

\* deploy: alembic upgrade head
deploy_migrate(ok) ==
    /\ pc = "deploy_migrate"
    /\ IF ok
       THEN ReturnsLogging("deploy", Append(depLog, "migrate"))
       ELSE Exit(1) /\ Ran("migrate", FALSE)
    /\ UNCHANGED <<arg, errTrap, service, postgresUp>>

\* verify_deployment returns 1: the else branch of main, or the end of the script.
VerifyFails == IF arg = "" THEN Goto("rollback") ELSE Exit(1)

\* verify_deployment: one iteration of the loop over SERVICES.
verify_services(up) ==
    /\ pc = "verify_services"
    /\ IF ~up
       THEN VerifyFails /\ UNCHANGED service /\ Run("verification failed")
       ELSE /\ UNCHANGED depLog
            /\ IF service < Len(SERVICES)
               THEN Goto("verify_services") /\ service' = service + 1
               ELSE Goto("verify_health") /\ UNCHANGED service
    /\ UNCHANGED <<arg, errTrap, postgresUp>>

\* verify_deployment: the three curl checks (backend, frontend, nginx).
verify_health(backend, frontend, nginx) ==
    /\ pc = "verify_health"
    /\ IF backend /\ frontend /\ nginx
       THEN /\ IF arg = "" THEN Goto("show_info") ELSE Exit(0)
            /\ depLog' = Append(depLog, "verified")
       ELSE VerifyFails /\ Run("verification failed")
    /\ UNCHANGED <<arg, errTrap, service, postgresUp>>

show_info ==
    /\ pc = "show_info"
    /\ Run("show_info")
    /\ Exit(0)
    /\ UNCHANGED <<arg, errTrap, service, postgresUp>>

\* rollback: docker-compose down, then exit 1.
rollback(ok) ==
    /\ pc = "rollback"
    /\ Run(IF ok THEN "rollback: services down" ELSE "rollback: down failed")
    /\ Exit(1)
    /\ UNCHANGED <<arg, errTrap, service, postgresUp>>

DeployNext ==
    \/ \E a \in Args : Cli(a)
    \/ Main
    \/ \E docker, compose \in BOOLEAN : check_prerequisites(docker, compose)
    \/ \E git, fetched, reset \in BOOLEAN : pull_code(git, fetched, reset)
    \/ \E up \in BOOLEAN : backup_database(up)
    \/ \E ok \in BOOLEAN : backup_run(ok)
    \/ \E ok \in BOOLEAN : deploy_build(ok)
    \/ \E ok \in BOOLEAN : deploy_down(ok)
    \/ \E ok \in BOOLEAN : deploy_up(ok)
    \/ \E ok \in BOOLEAN : deploy_migrate(ok)
    \/ \E up \in BOOLEAN : verify_services(up)
    \/ \E backend, frontend, nginx \in BOOLEAN : verify_health(backend, frontend, nginx)
    \/ show_info
    \/ \E ok \in BOOLEAN : rollback(ok)

----------------------------------------------------------------------------
(***************************************************************************)
(* InventoryPage: recording a stock move                                    *)
(***************************************************************************)
moveTypes == <<"purchase", "sale", "transfer", "adjustment", "return", "damage">>
MoveTypeValues == {moveTypes[i] : i \in 1..Len(moveTypes)}
\* The barcode of a mock product and a barcode that no product has.
Barcodes == {"1234567890123", "0000000000000"}
\* What the quantity input can hold: numerals, and text without a leading numeral.
QuantityInputs == {"-2", "0", "1", "2", ""}
NoResult == [found |-> FALSE, product |-> NULL, barcode |-> NULL]

\* mockProducts.find(p => p.barcode === barcode)
searchByBarcode(barcode) ==
    IF barcode = "1234567890123"
    THEN [found |-> TRUE, product |-> "1", barcode |-> barcode]
    ELSE [found |-> FALSE, product |-> NULL, barcode |-> barcode]

\* parseInt(text): NaN for text without a leading numeral.
parseInt(text) ==
    CASE text = "-2" -> [nan |-> FALSE, value |-> -2]
      [] text = "0" -> [nan |-> FALSE, value |-> 0]
      [] text = "1" -> [nan |-> FALSE, value |-> 1]
      [] text = "2" -> [nan |-> FALSE, value |-> 2]
      [] OTHER -> [nan |-> TRUE, value |-> 0]

\* parseInt(e.target.value) || 1: NaN and 0 are falsy.
parseIntOr1(text) ==
    LET n == parseInt(text) IN IF n.nan \/ n.value = 0 THEN 1 ELSE n.value

\* The quantity of the move without its sign.
signedQuantity_unsigned(moveType, q) == q

\* selectedMoveType === 'sale' ? -quantity : quantity
signedQuantity(moveType, q) == IF moveType = "sale" THEN -q ELSE q

InventoryRest ==
    /\ searchResult = NoResult /\ stockMoves = <<>> /\ selectedMoveType = "purchase"
    /\ invQuantity = 1 /\ invLoading = FALSE /\ scanPending = <<>> /\ movePending = <<>>

\* onChange of the move type select
setSelectedMoveType(t) ==
    /\ selectedMoveType' = t
    /\ UNCHANGED <<searchResult, stockMoves, invQuantity, invLoading, scanPending, movePending>>

\* onChange of the quantity input
setQuantity(v) ==
    /\ invQuantity' = parseIntOr1(v)
    /\ UNCHANGED <<searchResult, stockMoves, selectedMoveType, invLoading, scanPending,
                   movePending>>

\* handleBarcodeScanned up to its await
handleBarcodeScanned(barcode) ==
    /\ Len(scanPending) < 1
    /\ invLoading' = TRUE
    /\ scanPending' = Append(scanPending, barcode)
    /\ UNCHANGED <<searchResult, stockMoves, selectedMoveType, invQuantity, movePending>>

\* handleBarcodeScanned after its await
BarcodeSearched ==
    /\ scanPending # <<>>
    /\ searchResult' = searchByBarcode(Head(scanPending))
    /\ scanPending' = Tail(scanPending)
    /\ invLoading' = FALSE
    /\ UNCHANGED <<stockMoves, selectedMoveType, invQuantity, movePending>>

\* handleCreateStockMove up to its await; the button is disabled while
\* no product is found or a request is loading.
handleCreateStockMove ==
    /\ searchResult.found /\ ~invLoading
    /\ IF invQuantity <= 0
       THEN UNCHANGED <<invLoading, movePending>>
       ELSE /\ Len(stockMoves) + Len(movePending) < MaxMoves
            /\ invLoading' = TRUE
            /\ movePending' = Append(movePending,
                   [product_id |-> searchResult.product,
                    quantity |-> signedQuantity(selectedMoveType, invQuantity),
                    move_type |-> selectedMoveType,
                    entered |-> invQuantity])
    /\ UNCHANGED <<searchResult, stockMoves, selectedMoveType, invQuantity, scanPending>>

\* createStockMove resolves: handleCreateStockMove after its await.
StockMoveCreated ==
    /\ movePending # <<>>
    /\ LET moveData == Head(movePending)
           newMove == [product_id |-> moveData.product_id, quantity |-> moveData.quantity,
                       move_type |-> moveData.move_type, status |-> "confirmed"]
       IN  stockMoves' = <<newMove>> \o stockMoves
    /\ movePending' = Tail(movePending)
    /\ invQuantity' = 1
    /\ searchResult' = NoResult
    /\ invLoading' = FALSE
    /\ UNCHANGED <<selectedMoveType, scanPending>>

InventoryNext ==
    \/ \E t \in MoveTypeValues : setSelectedMoveType(t)
    \/ \E v \in QuantityInputs : setQuantity(v)
    \/ \E b \in Barcodes : handleBarcodeScanned(b)
    \/ BarcodeSearched
    \/ handleCreateStockMove
    \/ StockMoveCreated

AddRest == ForecastRest /\ DeployRest /\ InventoryRest

----------------------------------------------------------------------------
(***************************************************************************)
(* Specifications: one per component, the other components at rest.         *)
(***************************************************************************)
Init == RtInit /\ RlsInit /\ NotifDefault /\ SearchRest /\ AddRest
Next == RtNext /\ UNCHANGED <<rlsVars, notifVars, searchVars, addVars>>
Spec == Init /\ [][Next]_vars

SpecRls == Init /\ [][RlsNext /\ UNCHANGED <<rtVars, notifVars, searchVars, addVars>>]_vars

NotifStep == NotifNext /\ UNCHANGED <<rtVars, rlsVars, searchVars, addVars>>
\* A timer that was set fires.
InitNotif == RtInit /\ RlsInit /\ NotifInit /\ SearchRest /\ AddRest
SpecNotif ==
    /\ InitNotif
    /\ [][NotifStep]_vars
    /\ \A id \in NotifIds : WF_vars(HideTimerFire(id) /\ UNCHANGED <<rtVars, rlsVars, searchVars, addVars>>)

SpecSearch == Init /\ [][SearchNext /\ UNCHANGED <<rtVars, rlsVars, notifVars, addVars>>]_vars

coreVars == <<rtVars, rlsVars, notifVars, searchVars>>

NextForecast == ForecastNext /\ UNCHANGED <<coreVars, depVars, invVars>>
SpecForecast == Init /\ [][NextForecast]_vars

NextDeploy == DeployNext /\ UNCHANGED <<coreVars, fcVars, invVars>>
SpecDeploy == Init /\ [][NextDeploy]_vars

NextInventory == InventoryNext /\ UNCHANGED <<coreVars, fcVars, depVars>>
SpecInventory == Init /\ [][NextInventory]_vars

----------------------------------------------------------------------------
(***************************************************************************)
(* Properties of useRealtime                                                *)
(***************************************************************************)
ReconnectTimers == {t \in timers : t.kind = "reconnect"}
HeartbeatTimers == {t \in timers : t.kind = "heartbeat"}

\* A step in which a socket that close() was not called on is closed.
UnexpectedCloseStep ==
    \E s \in SockIds : /\ sock[s].state \in {"CONNECTING", "OPEN"}
                        /\ sock'[s].state \in {"CLOSED", "NONE"}
\* A step in which a reconnect timer fires.
ReconnectFireStep ==
    \E t \in ReconnectTimers : t \notin timers' /\ reconnectCount' = reconnectCount + 1
\* A step in which handleClose schedules a reconnect timer.
ScheduleStep == \E t \in timers' : t.kind = "reconnect" /\ t \notin timers

\* The part of C1 that the retry counter and the timer ref guarantee.
RetryBounded ==
    /\ reconnectCount <= reconnectAttempts
    /\ Len(firedDelays) <= reconnectAttempts
    /\ Cardinality(ReconnectTimers) <= 1
ScheduledWithinBudget == [][ScheduleStep => reconnectCount < reconnectAttempts]_vars

\* C1: reconnectCount never exceeds reconnectAttempts, at most one reconnect
\* timer is pending, a reconnect is scheduled only while reconnectCount <
\* reconnectAttempts, and once the budget is used up the next unexpected close
\* schedules no timer and sets error to 'Max reconnection attempts reached'.
C1_BoundedRetry ==
    /\ []RetryBounded
    /\ ScheduledWithinBudget
    /\ [][(UnexpectedCloseStep /\ reconnectCount >= reconnectAttempts)
            => (ReconnectTimers' = {} /\ error' = "Max reconnection attempts reached")]_vars

DefaultDelays == <<2000, 4000, 8000, 16000, 32000>>

\* A step in which a socket that had received 'connection_established' is closed
\* without close() having been called on it.
EstablishedCloseStep ==
    \E s \in SockIds : /\ sock[s].state = "OPEN" /\ sock[s].established
                        /\ sock'[s].state \in {"CLOSED", "NONE"}

\* The part of C2 that the delay expression guarantees: a scheduled delay is
\* reconnectDelay * 2^k, k the number of reconnect timers that fired since the
\* last 'connection_established'.
DelayFormula ==
    [][\A t \in timers' :
          (t.kind = "reconnect" /\ t \notin timers) =>
              /\ t.delay = reconnectDelay * Pow2(Len(firedDelays))
              /\ t.delay = DefaultDelays[Len(firedDelays) + 1]]_vars

\* C2: the delay of the reconnect that handleClose schedules is
\* reconnectDelay * 2^k, k the number of automatic attempts made since the last
\* 'connection_established'; each delay is double the delay of the attempt
\* before it, and the first delay after a successful connection is reconnectDelay.
C2_DoublingDelay ==
    [][\A t \in timers' :
          (t.kind = "reconnect" /\ t \notin timers) =>
              /\ t.delay = reconnectDelay * Pow2(Len(firedDelays))
              /\ (Len(firedDelays) > 0 =>
                      t.delay = 2 * firedDelays[Len(firedDelays)])
              /\ (EstablishedCloseStep => t.delay = reconnectDelay)]_vars

\* C3: when the current WebSocket closes without disconnect() having been called
\* on it, the user is authenticated and reconnectCount < reconnectAttempts, a
\* reconnect is scheduled, and when the backoff timer fires a new WebSocket is
\* opened (the hook is connecting again).
C3_ReconnectOpens ==
    /\ [][(UnexpectedCloseStep /\ user /\ reconnectCount < reconnectAttempts)
              => ReconnectTimers' # {}]_vars
    /\ [][(ReconnectFireStep /\ user)
              => (wsRef' # 0 /\ sock'[wsRef'].state \in {"CONNECTING", "OPEN"})]_vars
\* The second half of C3 alone: the timer fires and no WebSocket is opened.
C3_FireOpens ==
    [][(ReconnectFireStep /\ user)
          => (wsRef' # 0 /\ sock'[wsRef'].state \in {"CONNECTING", "OPEN"})]_vars

\* The parts of C4 that the readyState guard and the timer ref guarantee.
HeartbeatSafe ==
    /\ lastPing \in {NULL, "OPEN"}
    /\ Cardinality(HeartbeatTimers) <= 1
\* The current socket has received 'connection_established' and is still OPEN.
Established == wsRef # 0 /\ sock[wsRef].state = "OPEN" /\ sock[wsRef].established

\* C4: after 'connection_established' a heartbeat is pending for as long as the
\* socket stays OPEN (so a ping goes out every heartbeatInterval), a ping is never
\* sent on a socket that is not OPEN, and at most one heartbeat timer is pending.
C4_Heartbeat ==
    /\ HeartbeatSafe
    /\ Established =>
           \E t \in HeartbeatTimers : t.delay = heartbeatInterval /\ t.id = heartbeatTimeoutRef

\* C5: after disconnect(), until connect() is called again, no timer is pending,
\* isConnected is false, connectionId is null and no WebSocket is opened.
C5_ManualDisconnect ==
    disconnected => /\ timers = {}
                    /\ ~isConnected /\ connectionId = NULL
                    /\ wsRef = 0

\* C6: an event is delivered (lastEvent, onEvent) only if its tenant_id is the
\* tenantId of the authenticated user.
C6_TenantIsolation == lastEvent # NoEvent => lastEvent.tenant_id = OwnTenant

----------------------------------------------------------------------------
(***************************************************************************)
(* Properties of the row-level security setup                               *)
(***************************************************************************)
\* The tenant a row belongs to: company_id, and id for the companies table.
RowTenant(table, row) == IF table = "companies" THEN row.id ELSE row.company_id

C8_PoolSafety ==
    lastQuery.kind = "request" =>
        lastQuery.setting = IF lastQuery.token = NoToken THEN SqlNull ELSE lastQuery.token
\* A request without a tenant has queried on a pooled connection that a request of
\* tenant A used before, while a request of tenant B holds another connection.
C8_Witness ==
    /\ lastQuery.kind = "request" /\ lastQuery.token = NoToken
    /\ lastQuery.table = "contacts" /\ lastQuery.rows = {}
    /\ \E c, d \in Pool :
           /\ conn[c].pc = "ready" /\ conn[c].token = NoToken /\ conn[c].prev = TenantA
           /\ conn[d].pc = "ready" /\ conn[d].token = TenantB /\ conn[d].local = TenantB

----------------------------------------------------------------------------
(***************************************************************************)
(* Properties of RealtimeNotifications                                      *)
(***************************************************************************)
InList(id) == id \in Ids(notifications)
AutoHidden(id) ==
    \E i \in 1..Len(notifications) : notifications[i].id = id /\ notifications[i].autoHide

\* Every auto-hide notification in the list has its timer pending.
TimerPending ==
    \A id \in NotifIds : (AutoHidden(id) /\ autoHideDelay > 0) => id \in hideTimers

\* C9: a notification added with autoHide true and autoHideDelay > 0 is eventually
\* removed from the list, whether or not it was read, and the removal by its
\* timer removes no other notification.
C9_AutoDismiss ==
    /\ \A id \in NotifIds : (AutoHidden(id) /\ autoHideDelay > 0) ~> ~InList(id)
    /\ [][\A id \in NotifIds :
              (id \in hideTimers /\ id \notin hideTimers') =>
                  /\ ~InList(id)'
                  /\ \A i \in 1..Len(notifications) :
                         notifications[i].id # id =>
                             \E j \in 1..Len(notifications') :
                                 notifications'[j] = notifications[i]
                  /\ Len(notifications') >= Len(notifications) - 1]_vars
\* The timer of a notification that was read has just removed it, and the other
\* notification is still listed.
C9_Witness ==
    /\ lastHidden.id = 1 /\ lastHidden.inList /\ lastHidden.read
    /\ ~InList(1) /\ InList(2) /\ 1 \notin hideTimers

----------------------------------------------------------------------------
(***************************************************************************)
(* Properties of SemanticSearch                                             *)
(***************************************************************************)
IsBlank(q) == \A i \in 1..Len(q) : q[i] = " "

\* C10: a non-blank query is posted to /ai/semantic-search; when the request
\* succeeds, results is the results array of the response, each result shown with
\* metadata.name (or entity_type) and its similarity score; a blank query issues
\* no request and leaves the results unchanged.
C10_SearchResults ==
    /\ [](lastResponse.status = "ok" =>
             /\ results = lastResponse.results
             /\ Len(Shown(results)) = Len(lastResponse.results)
             /\ \A i \in 1..Len(results) :
                    /\ Shown(results)[i].title \in
                           {lastResponse.results[i].name, lastResponse.results[i].entity_type}
                    /\ Shown(results)[i].title # ""
                    /\ 100 * Shown(results)[i].percent + Shown(results)[i].hundredths
                           = lastResponse.results[i].similarity_score)
    /\ [][lastAction' = "handleSearch" =>
              IF IsBlank(query)
              THEN inflight' = inflight /\ results' = results
              ELSE \E r \in inflight' \ inflight :
                       r.query = query /\ r.url = "/ai/semantic-search"]_vars
\* The response of the e2e test has arrived and is shown.
C10_Witness ==
    /\ lastResponse = [status |-> "ok", results |-> <<TestProduct>>]
    /\ results = <<TestProduct>>
    /\ Shown(results) = <<[title |-> "Test Product", percent |-> 95, hundredths |-> 0]>>
    /\ toast = "Please enter a search query."

----------------------------------------------------------------------------
(***************************************************************************)
(* Properties of the demand forecast                                        *)
(***************************************************************************)
\* A step of handleForecast that posts a request.
ForecastPostStep == \E r \in ForecastIds : fcPending[r] = NULL /\ fcPending'[r] # NULL
\* A step in which a response to a posted request arrives.
ForecastResponseStep == \E r \in ForecastIds : fcPending[r] # NULL /\ fcPending'[r] = NULL
ForecastSuccessStep == ForecastResponseStep /\ fcToast' = "Demand forecast updated!"

\* C11: a click on Forecast with a product selected posts the id of that
\* product to /ai/forecast; when a request succeeds the toast is 'Demand
\* forecast updated!' and the series becomes its last three previous points
\* followed by the new point 'Next Month'; the series always has exactly 4
\* points; no other step (a click without a product, a click that posts, a
\* selection, a failed request) changes the series.
C11_ForecastSeries ==
    /\ [](Len(forecastData) = 4)
    /\ [][ /\ ForecastPostStep =>
                /\ selectedProduct # NULL
                /\ fcPosted' = [url |-> "/ai/forecast", product_id |-> selectedProduct]
                /\ \E r \in ForecastIds :
                      fcPending' = [fcPending EXCEPT ![r] = selectedProduct]
           /\ (HandleForecast /\ selectedProduct # NULL) => ForecastPostStep
           /\ ForecastSuccessStep =>
                /\ Len(forecastData') = 4
                /\ \A i \in 1..3 : forecastData'[i] = forecastData[i + 1]
                /\ forecastData'[4].name = "Next Month"
                /\ forecastData'[4].demand \in Predictions
           /\ (ForecastResponseStep /\ fcToast' = "Failed to fetch forecast.") =>
                forecastData' = forecastData
           /\ forecastData' # forecastData => ForecastSuccessStep
         ]_vars

\* Two forecasts succeeded after three points of the mock series were shifted out.
C11_Witness ==
    /\ fcToast = "Demand forecast updated!"
    /\ Len(forecastData) = 4
    /\ forecastData[1] = mockForecastData[3]
    /\ forecastData[2] = mockForecastData[4]
    /\ forecastData[3].name = "Next Month"
    /\ forecastData[4].name = "Next Month"
    /\ forecastData[3].demand # forecastData[4].demand
    /\ fcPosted.product_id \in Products

----------------------------------------------------------------------------
(***************************************************************************)
(* Properties of deploy.sh                                                  *)
(***************************************************************************)
IsCall(e) == e \in {"check_prerequisites", "pull_code", "backup_database", "deploy",
                    "verify_deployment"}
\* The functions that main called so far, in the order of the calls.
Calls == SelectSeq(depLog, IsCall)
FullOrder ==
    <<"check_prerequisites", "pull_code", "backup_database", "deploy", "verify_deployment">>
Logged(e) == \E i \in 1..Len(depLog) : depLog[i] = e
Before(e, i) == \E j \in 1..(i - 1) : depLog[j] = e
\* The positions at which deploy stops, replaces or migrates the services.
Replacing == {i \in 1..Len(depLog) : depLog[i] \in {"down", "up", "migrate"}}

\* The order of the steps of a run of main.
MainOrder ==
    arg = "" =>
        /\ Calls = SubSeq(FullOrder, 1, Len(Calls))
        /\ exitStatus = 0 => Calls = FullOrder

\* C12 as stated: a full run executes the five steps in their order, and a
\* database backup was created before deploy stops and replaces the services
\* and before the migrations run.
C12_BackupCreatedFirst ==
    /\ MainOrder
    /\ arg = "" => \A i \in Replacing : Before("backup created", i)

\* C12 amended: a full run executes the five steps in their order, and
\* backup_database ran before deploy stops and replaces the services and
\* before the migrations run: it created a backup when the postgres service
\* was Up, and skipped the backup when it was not.
C12_BackupStepFirst ==
    /\ MainOrder
    /\ arg = "" => \A i \in Replacing :
          /\ Before("backup_database", i)
          /\ postgresUp = "Up" => Before("backup created", i)
          /\ postgresUp = "not Up" => Before("backup skipped", i) /\ ~Logged("backup created")

\* A full run that created a backup and succeeded.
C12_Witness ==
    /\ arg = "" /\ exitStatus = 0 /\ postgresUp = "Up"
    /\ Logged("backup created") /\ Logged("migrate") /\ Logged("show_info")

StepFailed ==
    \/ Logged("build failed") \/ Logged("up failed") \/ Logged("migrate failed")
    \/ Logged("verification failed")
RollbackRan == Logged("rollback: services down") \/ Logged("rollback: down failed")

\* A run that ended after a failed step exited with a non-zero status.
FailureExitsNonZero == (pc = "exited" /\ StepFailed) => exitStatus = 1
\* show_info is printed only after verify_deployment succeeded.
InfoOnlyWhenVerified == Logged("show_info") => Logged("verified") /\ ~StepFailed
\* A failed verification in main is followed by rollback.
VerificationRollsBack ==
    (arg = "" /\ pc = "exited" /\ Logged("verification failed")) => RollbackRan

\* C13: when a step of main failed (the image build, the service start, the
\* migrations or the verification), rollback ran before the script ended and
\* the exit status is non-zero; show_info is printed only when
\* verify_deployment succeeded.
C13_FailureRollsBack ==
    /\ (arg = "" /\ pc = "exited" /\ StepFailed) => RollbackRan /\ exitStatus = 1
    /\ InfoOnlyWhenVerified

----------------------------------------------------------------------------
(***************************************************************************)
(* Properties of the inventory page                                         *)
(***************************************************************************)
\* C18: a created stock move is prepended to stockMoves; its quantity is -q
\* when its move type is 'sale' and +q for each of the other five move types,
\* where q > 0 is the quantity that was entered when the move was submitted.
C18_StockMoveSign ==
    /\ [](\A i \in 1..Len(stockMoves) :
            /\ stockMoves[i].move_type \in
                  {"purchase", "sale", "transfer", "adjustment", "return", "damage"}
            /\ stockMoves[i].move_type = "sale" => stockMoves[i].quantity < 0
            /\ stockMoves[i].move_type # "sale" => stockMoves[i].quantity > 0)
    /\ [][stockMoves' # stockMoves =>
            /\ movePending # <<>>
            /\ Tail(stockMoves') = stockMoves
            /\ LET q == Head(movePending).entered
                   new == Head(stockMoves')
               IN  /\ q > 0
                   /\ new.move_type = Head(movePending).move_type
                   /\ new.move_type = "sale" => new.quantity = 0 - q
                   /\ new.move_type # "sale" => new.quantity = q
         ]_vars
    /\ [][movePending' # movePending /\ stockMoves' = stockMoves =>
            /\ invQuantity > 0
            /\ movePending' = Append(movePending, movePending'[Len(movePending')])
            /\ movePending'[Len(movePending')].entered = invQuantity
            /\ movePending'[Len(movePending')].move_type = selectedMoveType
         ]_vars

\* A sale of 2 units was recorded after a damage of 1 unit.
C18_Witness ==
    /\ Len(stockMoves) = 2
    /\ stockMoves[1].move_type = "sale" /\ stockMoves[1].quantity = -2
    /\ stockMoves[2].move_type = "damage" /\ stockMoves[2].quantity = 1

----------------------------------------------------------------------------
(***************************************************************************)
(* useRealtime as the state machine                                         *)
(* {disconnected, connecting, connected, backing-off}                       *)
(***************************************************************************)
Connected == isConnected
Connecting == ~isConnected /\ wsRef # 0 /\ sock[wsRef].state \in {"CONNECTING", "OPEN"}
BackingOff == \E t \in timers : t.kind = "reconnect"
Disconnected == ~Connected /\ ~Connecting /\ ~BackingOff

\* The state of the four-state machine that the hook is in.
MachineState ==
    IF Connected THEN "connected"
    ELSE IF BackingOff THEN "backing-off"
    ELSE IF Connecting THEN "connecting"
    ELSE "disconnected"

MachineTransitions ==
    { <<"disconnected", "connecting">>, <<"connecting", "connected">>,
      <<"connecting", "backing-off">>, <<"connected", "backing-off">>,
      <<"backing-off", "connecting">> }
    \cup {<<q, "disconnected">> : q \in {"connecting", "connected", "backing-off"}}

\* C14: the hook is in exactly one of the four states, isConnected is true
\* exactly in state connected (with an open current socket), and every step
\* either keeps the state or takes one of the transitions of the table.
C14_FourStateMachine ==
    /\ [](/\ ~(Connected /\ BackingOff)
          /\ ~(Connecting /\ BackingOff)
          /\ Connected => wsRef # 0 /\ sock[wsRef].state = "OPEN")
    /\ [][MachineState' = MachineState \/ <<MachineState, MachineState'>> \in MachineTransitions]_vars

\* C15: the manual flag is set only while the close event of a socket that
\* disconnect() closed is outstanding, and an unexpected close of the current
\* socket with retry budget left always schedules a reconnect.
C15_ManualOnlyForDisconnect ==
    /\ [](isManualDisconnect => \E s \in SockIds : sock[s].state = "CLOSING")
    /\ [][\A s \in SockIds :
            (/\ s = wsRef /\ sock[s].state \in {"CONNECTING", "OPEN"}
             /\ sock'[s].state = "CLOSED"
             /\ reconnectCount < reconnectAttempts)
            => \E t \in timers' : t.kind = "reconnect" /\ t.id = reconnectTimeoutRef'
         ]_vars

\* The close event of the socket s is delivered while another socket is the
\* current one and is connecting or open.
StaleCloseStep(s) ==
    /\ sock[s].state = "CLOSING" /\ sock'[s].state = "NONE"
    /\ wsRef # 0 /\ wsRef # s /\ wsRef' = wsRef
    /\ sock[wsRef].state \in {"CONNECTING", "OPEN"}

\* C16: the close event of a replaced socket changes neither isConnected nor
\* connectionId, leaves the heartbeat timer of the current connection pending
\* and schedules no reconnect.
C16_StaleCloseHarmless ==
    [][\A s \in SockIds : StaleCloseStep(s) =>
            /\ isConnected' = isConnected
            /\ connectionId' = connectionId
            /\ heartbeatTimeoutRef' = heartbeatTimeoutRef
            /\ \A t \in timers : t.kind = "heartbeat" => t \in timers'
            /\ \A t \in timers' : t.kind = "reconnect" => t \in timers
      ]_vars

CurrentEstablished == wsRef # 0 /\ sock[wsRef].state = "OPEN" /\ sock[wsRef].established

\* C17: a re-render with the same user and options (the callback passed by
\* useStockUpdates, useOrderUpdates and useNotifications is new in each
\* render) neither closes nor replaces the established current socket.
C17_SurvivesRerender ==
    [][(RenderNewOnEvent /\ CurrentEstablished) =>
          wsRef' = wsRef /\ sock'[wsRef].state = "OPEN"]_vars

====
